---- MODULE Spec2Model ----
(***************************************************************************)
(* Model of the ann-demo pipeline: dataset loading, min-max normalisation, *)
(* model construction, the fit loop and prediction, together with the      *)
(* React component (NeuralNetworkDemo) that drives them.                   *)
(*                                                                         *)
(* JavaScript numbers are modelled as records                              *)
(*   [k |-> "fin", s |-> sign, hi |-> hi, lo |-> lo, e |-> e]              *)
(*       the double  sign * (hi * 2^27 + lo) * 2^e,  sign 1 or -1, the     *)
(*       mantissa hi * 2^27 + lo odd and below 2^53, e >= -1074 (zero has  *)
(*       hi = lo = e = 0 and a sign: +0 and -0)                            *)
(*   [k |-> "inf", s |-> 1 or -1, ...]          +/-Infinity                *)
(*   [k |-> "nan", ...]                         NaN                        *)
(*   [k |-> "null", ...], [k |-> "str", ...]    null, a non-numeric string *)
(* Subtraction and division are the IEEE 754 binary64 operations: the      *)
(* exact result rounded to 53 bits, ties to even, with subnormals, signed  *)
(* zero, and overflow to Infinity.  The mantissa is kept in two limbs so   *)
(* that every intermediate value fits an integer of the checker.           *)
(***************************************************************************)
EXTENDS Integers, Sequences, FiniteSets, TLC

VARIABLES
    data,             \* useState<DataPoint[]>([])
    isLoading,        \* useState(true)
    error,            \* useState<string | null>(null)
    model,            \* useState<tf.Sequential | null>(null)
    ranges,           \* useState<any>(null)
    prediction,       \* useState<number | null>(null)
    lastResult,       \* handlePredict's const result, of its latest invocation
    trainingHistory,  \* useState<Array<{epoch, loss, acc}>>([])
    config,           \* useState<ModelConfig>({hiddenLayers: [8, 4], learningRate: 0.01})
    inputValues,      \* useState({hoursStudied: 20, attendanceRate: 80})
    runs,             \* the handleTrain / trainModel invocations so far, in start order
    call,             \* the arguments of the last direct call of a pipeline function
    ret               \* what that call returned or threw

vars == <<data, isLoading, error, model, ranges, prediction, lastResult, trainingHistory,
          config, inputValues, runs, call, ret>>

sessionVars == <<data, isLoading, error, model, ranges, prediction, lastResult,
                 trainingHistory, config, inputValues>>

----------------------------------------------------------------------------
(* JavaScript numbers *)

Abs(i) == IF i < 0 THEN -i ELSE i

\* The limb base, 2^27: a magnitude is hi * Base + lo with 0 <= lo < Base.
Base == 134217728

\* The exponent of the least bit of a subnormal double (Number.MIN_VALUE = 2^-1074)
\* and the exponent no finite double reaches (Number.MAX_VALUE < 2^1024).
MinExp == -1074
MaxExp == 1024

NaN == [k |-> "nan", s |-> 1, hi |-> 0, lo |-> 0, e |-> 0]
Infinity == [k |-> "inf", s |-> 1, hi |-> 0, lo |-> 0, e |-> 0]
NegInfinity == [k |-> "inf", s |-> -1, hi |-> 0, lo |-> 0, e |-> 0]
Null == [k |-> "null", s |-> 1, hi |-> 0, lo |-> 0, e |-> 0]
Undefined == [k |-> "undef", s |-> 1, hi |-> 0, lo |-> 0, e |-> 0]
Str == [k |-> "str", s |-> 1, hi |-> 0, lo |-> 0, e |-> 0]
EmptyString == [k |-> "empty", s |-> 1, hi |-> 0, lo |-> 0, e |-> 0]

\* +0 (s = 1) and -0 (s = -1).
Zero(s) == [k |-> "fin", s |-> s, hi |-> 0, lo |-> 0, e |-> 0]

\* The magnitude (hi * Base + lo) * 2^e.
Mag(hi, lo, e) == [hi |-> hi, lo |-> lo, e |-> e]

IsZero(x) == x.hi = 0 /\ x.lo = 0

\* The same magnitude with the mantissa shifted right by i bits (1 <= i <= 26; the
\* bits shifted out are lost) or left by i bits.
ShiftRight(m, i) ==
    Mag(m.hi \div 2^i, m.lo \div 2^i + (m.hi % 2^i) * 2^(27 - i), m.e + i)

ShiftLeft(m, i) ==
    Mag(m.hi * 2^i + m.lo \div 2^(27 - i), (m.lo % 2^(27 - i)) * 2^i, m.e - i)

\* A non-zero magnitude below 2^53 * 2^e with its mantissa brought to 53 bits.
RECURSIVE Widen(_)
Widen(m) ==
    IF m.hi = 0 /\ m.lo < 2^26 THEN Widen(Mag(m.lo, 0, m.e - 27))
    ELSE IF m.hi < 2^10 THEN Widen(ShiftLeft(m, 16))
    ELSE IF m.hi < 2^18 THEN Widen(ShiftLeft(m, 8))
    ELSE IF m.hi < 2^22 THEN Widen(ShiftLeft(m, 4))
    ELSE IF m.hi < 2^25 THEN Widen(ShiftLeft(m, 1))
    ELSE m

\* A non-zero magnitude with the trailing zero bits of its mantissa removed: the
\* form in which a finite number is kept.
RECURSIVE Narrow(_)
Narrow(m) ==
    IF m.lo = 0 THEN Narrow(Mag(0, m.hi, m.e + 27))
    ELSE IF m.lo % 65536 = 0 THEN Narrow(ShiftRight(m, 16))
    ELSE IF m.lo % 256 = 0 THEN Narrow(ShiftRight(m, 8))
    ELSE IF m.lo % 16 = 0 THEN Narrow(ShiftRight(m, 4))
    ELSE IF m.lo % 2 = 0 THEN Narrow(ShiftRight(m, 1))
    ELSE m

\* Bits are shifted out of the mantissa until it has at most 53 bits and its
\* least bit is worth at least 2^-1074.  guard is the last bit shifted out,
\* sticky tells whether anything below it was non-zero.  Below 2^-1074 up to 16
\* bits go at a time.
RECURSIVE RoundLoop(_, _, _)
RoundLoop(m, guard, sticky) ==
    IF m.e < MinExp /\ ~(IsZero(m) /\ ~guard)
    THEN LET j == IF MinExp - m.e > 16 THEN 16 ELSE MinExp - m.e
         IN RoundLoop(ShiftRight(m, j), (m.lo \div 2^(j - 1)) % 2 = 1,
                      sticky \/ guard \/ m.lo % 2^(j - 1) # 0)
    ELSE IF m.hi >= 2^26
    THEN RoundLoop(ShiftRight(m, 1), m.lo % 2 = 1, sticky \/ guard)
    ELSE [m |-> m, guard |-> guard, sticky |-> sticky]

\* The double nearest to s * (m + f) (ties to even), where sticky tells whether
\* the fraction f of the mantissa's least bit is non-zero: Infinity from 2^1024 on.
ToDouble(s, m, sticky) ==
    LET r == RoundLoop(m, FALSE, sticky)
        up == r.guard /\ (r.sticky \/ r.m.lo % 2 = 1)
        lo == IF up THEN (r.m.lo + 1) % Base ELSE r.m.lo
        hi == IF up /\ r.m.lo + 1 = Base THEN r.m.hi + 1 ELSE r.m.hi
    IN IF hi = 0 /\ lo = 0 THEN Zero(s)
       ELSE LET n == Narrow(Mag(hi, lo, r.m.e))
            IN IF Widen(n).e + 53 > MaxExp
               THEN [k |-> "inf", s |-> s, hi |-> 0, lo |-> 0, e |-> 0]
               ELSE [k |-> "fin", s |-> s, hi |-> n.hi, lo |-> n.lo, e |-> n.e]

\* The integer n (below 2^31 in magnitude).
Fin(n) ==
    IF n = 0 THEN Zero(1)
    ELSE ToDouble(IF n < 0 THEN -1 ELSE 1, Mag(Abs(n) \div Base, Abs(n) % Base, 0), FALSE)

\* Number(x): null and the empty string become 0, undefined and a non-numeric
\* string become NaN.
Number(x) ==
    IF x.k \in {"null", "empty"} THEN Zero(1)
    ELSE IF x.k \in {"str", "undef"} THEN NaN
    ELSE x

isNaN(x) == Number(x).k = "nan"

isFinite(x) == Number(x).k = "fin"

\* |x| < |y| for finite non-zero x and y.
MagLess(x, y) ==
    LET a == Widen(Mag(x.hi, x.lo, x.e))
        b == Widen(Mag(y.hi, y.lo, y.e))
    IN \/ a.e < b.e
       \/ a.e = b.e /\ (a.hi < b.hi \/ (a.hi = b.hi /\ a.lo < b.lo))

\* x < y for finite x and y (-0 is not below +0).
FinLess(x, y) ==
    IF IsZero(x) THEN ~IsZero(y) /\ y.s = 1
    ELSE IF IsZero(y) THEN x.s = -1
    ELSE IF x.s # y.s THEN x.s = -1
    ELSE IF x.s = 1 THEN MagLess(x, y)
    ELSE MagLess(y, x)

\* a < b
Less(a, b) ==
    LET x == Number(a)
        y == Number(b)
    IN IF x.k = "nan" \/ y.k = "nan" THEN FALSE
       ELSE IF x.k = "inf" THEN x.s = -1 /\ ~(y.k = "inf" /\ y.s = -1)
       ELSE IF y.k = "inf" THEN y.s = 1
       ELSE FinLess(x, y)

\* a > b
Greater(a, b) == Less(b, a)

\* a === b for numbers: NaN equals nothing, -0 equals +0.
StrictEquals(a, b) ==
    /\ a.k # "nan"
    /\ \/ a = b
       \/ a.k = "fin" /\ b.k = "fin" /\ IsZero(a) /\ IsZero(b)

\* The magnitude m (mantissa of 53 bits, times 8) with its mantissa shifted right
\* by i bits, the bits shifted out gathered in the least bit.
RECURSIVE ShiftSticky(_, _)
ShiftSticky(m, i) ==
    IF i = 0 THEN m
    ELSE IF i > 57 THEN Mag(0, 1, m.e + i)
    ELSE LET j == IF i > 16 THEN 16 ELSE i
             r == ShiftRight(m, j)
         IN ShiftSticky(IF m.lo % 2^j # 0 /\ r.lo % 2 = 0
                        THEN Mag(r.hi, r.lo + 1, r.e) ELSE r,
                        i - j)

\* x + y for finite non-zero x and y: the exact sum of the two mantissas, the
\* larger with three more bits, the smaller aligned to it, rounded once.
FinAdd(x, y) ==
    LET xw == Widen(Mag(x.hi, x.lo, x.e))
        yw == Widen(Mag(y.hi, y.lo, y.e))
        swap == MagLess(x, y)
        a == ShiftLeft(IF swap THEN yw ELSE xw, 3)
        sa == IF swap THEN y.s ELSE x.s
        bw == ShiftLeft(IF swap THEN xw ELSE yw, 3)
        sb == IF swap THEN x.s ELSE y.s
        b == ShiftSticky(bw, a.e - bw.e)
    IN IF sa = sb
       THEN ToDouble(sa, Mag(a.hi + b.hi + (a.lo + b.lo) \div Base,
                             (a.lo + b.lo) % Base, a.e), FALSE)
       ELSE IF a.hi = b.hi /\ a.lo = b.lo THEN Zero(1)
       ELSE ToDouble(sa, Mag(a.hi - b.hi - (IF a.lo < b.lo THEN 1 ELSE 0),
                             (a.lo - b.lo + Base) % Base, a.e), FALSE)

\* x - y for finite x and y.
FinMinus(x, y) ==
    IF IsZero(y) THEN (IF IsZero(x) THEN Zero(IF x.s = -1 /\ y.s = 1 THEN -1 ELSE 1) ELSE x)
    ELSE IF IsZero(x) THEN [y EXCEPT !.s = -y.s]
    ELSE FinAdd(x, [y EXCEPT !.s = -y.s])

\* a - b
Minus(a, b) ==
    LET x == Number(a)
        y == Number(b)
    IN IF x.k = "nan" \/ y.k = "nan" THEN NaN
       ELSE IF x.k = "inf" THEN (IF y.k = "inf" /\ y.s = x.s THEN NaN ELSE x)
       ELSE IF y.k = "inf" THEN [y EXCEPT !.s = -y.s]
       ELSE FinMinus(x, y)

\* Long division of the 53-bit mantissas: the state holds the remainder
\* (rhi, rlo), the quotient bits so far (qhi, qlo), the number f of bits after
\* the binary point among them, and whether the division is done: the
\* remainder is 0 (the quotient is exact) or 55 such bits are there.
DivState(done, rhi, rlo, qhi, qlo, f) ==
    [done |-> done, rhi |-> rhi, rlo |-> rlo, qhi |-> qhi, qlo |-> qlo, f |-> f]

\* One step of the long division by the mantissa (dhi, dlo): the next bit of
\* the quotient.  The division is done when the remainder is 0 or the
\* quotient has its 56 bits.
DivBit(t, dhi, dlo) ==
    IF t.done THEN t
    ELSE
    LET ge == t.rhi > dhi \/ (t.rhi = dhi /\ t.rlo >= dlo)
        slo == IF ge THEN (t.rlo - dlo + Base) % Base ELSE t.rlo
        shi == IF ge THEN t.rhi - dhi - (IF t.rlo < dlo THEN 1 ELSE 0) ELSE t.rhi
        nlo == (2 * t.qlo + (IF ge THEN 1 ELSE 0)) % Base
        nhi == 2 * t.qhi + (2 * t.qlo) \div Base
    IN IF (shi = 0 /\ slo = 0) \/ t.f = 55
       THEN DivState(TRUE, shi, slo, nhi, nlo, t.f)
       ELSE DivState(FALSE, 2 * shi + (2 * slo) \div Base, (2 * slo) % Base,
                     nhi, nlo, t.f + 1)

\* Eight steps.
DivByte(t, dhi, dlo) ==
    DivBit(DivBit(DivBit(DivBit(DivBit(DivBit(DivBit(DivBit(t,
        dhi, dlo), dhi, dlo), dhi, dlo), dhi, dlo), dhi, dlo), dhi, dlo),
        dhi, dlo), dhi, dlo)

RECURSIVE DivLoop(_, _, _)
DivLoop(t, dhi, dlo) ==
    IF t.done
    THEN [m |-> Mag(t.qhi, t.qlo, -t.f), sticky |-> ~(t.rhi = 0 /\ t.rlo = 0)]
    ELSE DivLoop(DivByte(t, dhi, dlo), dhi, dlo)

\* x / y for finite non-zero x and y.
FinDivide(x, y) ==
    LET xw == Widen(Mag(x.hi, x.lo, x.e))
        yw == Widen(Mag(y.hi, y.lo, y.e))
        q == DivLoop(DivState(FALSE, xw.hi, xw.lo, 0, 0, 0), yw.hi, yw.lo)
    IN ToDouble(x.s * y.s, Mag(q.m.hi, q.m.lo, q.m.e + xw.e - yw.e), q.sticky)

\* a / b
Divide(a, b) ==
    LET x == Number(a)
        y == Number(b)
    IN IF x.k = "nan" \/ y.k = "nan" THEN NaN
       ELSE IF x.k = "inf" THEN
            (IF y.k = "inf" THEN NaN ELSE [x EXCEPT !.s = x.s * y.s])
       ELSE IF y.k = "inf" THEN Zero(x.s * y.s)
       ELSE IF IsZero(y) THEN
            (IF IsZero(x) THEN NaN ELSE [Infinity EXCEPT !.s = x.s * y.s])
       ELSE IF IsZero(x) THEN Zero(x.s * y.s)
       ELSE FinDivide(x, y)

\* The double nearest to n/d (d # 0): the value of the decimal literal.
Frac(n, d) == Divide(Fin(n), Fin(d))

\* The literals 1e308 and 1e-320, by their bits.
Number1e308 == [k |-> "fin", s |-> 1, hi |-> 1166579, lo |-> 70213189, e |-> 976]
Number1eMinus320 == [k |-> "fin", s |-> 1, hi |-> 0, lo |-> 253, e |-> -1071]

\* Math.min(a, b): NaN if either is, and -0 is below +0.
min2(a, b) ==
    LET x == Number(a)
        y == Number(b)
    IN IF x.k = "nan" \/ y.k = "nan" THEN NaN
       ELSE IF Less(y, x) THEN y
       ELSE IF Less(x, y) THEN x
       ELSE IF y.s = -1 THEN y ELSE x

\* Math.max(a, b): NaN if either is, and +0 is above -0.
max2(a, b) ==
    LET x == Number(a)
        y == Number(b)
    IN IF x.k = "nan" \/ y.k = "nan" THEN NaN
       ELSE IF Greater(y, x) THEN y
       ELSE IF Greater(x, y) THEN x
       ELSE IF y.s = 1 THEN y ELSE x

\* Math.min(...xs): Infinity for no arguments, NaN if any argument is NaN.
RECURSIVE MathMin(_)
MathMin(xs) ==
    IF xs = <<>> THEN Infinity ELSE min2(Head(xs), MathMin(Tail(xs)))

\* Math.max(...xs): -Infinity for no arguments, NaN if any argument is NaN.
RECURSIVE MathMax(_)
MathMax(xs) ==
    IF xs = <<>> THEN NegInfinity ELSE max2(Head(xs), MathMax(Tail(xs)))

----------------------------------------------------------------------------
(* utils/data: normalizeData, prepareData *)

DataPoint(h, a, p) == [hoursStudied |-> h, attendanceRate |-> a, passed |-> p]

Threw(msg) == [threw |-> TRUE, message |-> msg]

FeatureRange(lo, hi) == [min |-> lo, max |-> hi]

\* data.map(d => d.hoursStudied), data.map(d => d.attendanceRate)
hoursColumn(d) == [i \in 1..Len(d) |-> d[i].hoursStudied]
attendanceColumn(d) == [i \in 1..Len(d) |-> d[i].attendanceRate]

\* xs.some(x => isNaN(x) || x === null)
someInvalid(xs) == \E i \in 1..Len(xs) : isNaN(xs[i]) \/ xs[i] = Null

\* The range check without the comparison of max with min.
invalidRange_noDegenerate(lo, hi) == ~isFinite(lo) \/ ~isFinite(hi)

\* !isFinite(min) || !isFinite(max) || max === min
invalidRange(lo, hi) == ~isFinite(lo) \/ ~isFinite(hi) \/ StrictEquals(hi, lo)

\* (value - min) / (max - min)
minMaxScale(value, lo, hi) == Divide(Minus(value, lo), Minus(hi, lo))

\* normalizeData from the computed minima and maxima on: the range checks and
\* the scaled records.
normalizeWithRanges(d, minHours, maxHours, minAttendance, maxAttendance) ==
    IF invalidRange(minHours, maxHours)
    THEN Threw("invalid hours range")
    ELSE IF invalidRange(minAttendance, maxAttendance)
    THEN Threw("invalid attendance range")
    ELSE [threw |-> FALSE,
          normalizedData |->
              [i \in 1..Len(d) |->
                  DataPoint(
                      minMaxScale(d[i].hoursStudied, minHours, maxHours),
                      minMaxScale(d[i].attendanceRate, minAttendance, maxAttendance),
                      d[i].passed)],
          ranges |-> [hours |-> FeatureRange(minHours, maxHours),
                      attendance |-> FeatureRange(minAttendance, maxAttendance)]]

\* normalizeData from the two extracted columns on.
normalizeColumns(d, hoursStudied, attendanceRate) ==
    IF someInvalid(hoursStudied) THEN Threw("invalid hours")
    ELSE IF someInvalid(attendanceRate) THEN Threw("invalid attendance")
    ELSE normalizeWithRanges(d, MathMin(hoursStudied), MathMax(hoursStudied),
                             MathMin(attendanceRate), MathMax(attendanceRate))

normalizeData(d) ==
    IF d = <<>> THEN Threw("no training data")
    ELSE normalizeColumns(d, hoursColumn(d), attendanceColumn(d))

----------------------------------------------------------------------------
(* utils/model: predict *)

\* What a call of predict did: the value it returned (or that it threw), and
\* whether it got as far as normalising the input and running a forward pass.
PredictOutcome(th, v, nrm, fwd) ==
    [threw |-> th, value |-> v, normalized |-> nrm, forward |-> fwd]

\* The range check without the upper bound on the attendance rate.
outOfRange_noAttendanceMax(input) ==
    \/ Less(input[1], Fin(0))
    \/ Greater(input[1], Fin(40))
    \/ Less(input[2], Fin(0))

\* input[0] < 0 || input[0] > 40 || input[1] < 0 || input[1] > 100
outOfRange(input) ==
    \/ Less(input[1], Fin(0))
    \/ Greater(input[1], Fin(40))
    \/ Less(input[2], Fin(0))
    \/ Greater(input[2], Fin(100))

\* xs.some(value => !isFinite(value))
someNotFinite(xs) == \E i \in 1..Len(xs) : ~isFinite(xs[i])

\* Math.max(0, Math.min(1, result))
clamp01(result) == max2(Fin(0), min2(Fin(1), result))

\* What the forward pass does instead of yielding a scalar when the backend fails.
Throws == [k |-> "throw", s |-> 1, hi |-> 0, lo |-> 0, e |-> 0]

\* mdl.output is the scalar model.predict(inputTensor).dataSync()[0] yields, or
\* Throws if the forward pass throws.
\* rg = Null stands for a null ranges argument: reading ranges.hours throws.
predict(mdl, input, rg) ==
    IF outOfRange(input) THEN PredictOutcome(FALSE, Fin(0), FALSE, FALSE)
    ELSE IF rg = Null THEN PredictOutcome(TRUE, Undefined, FALSE, FALSE)
    ELSE
    LET normalizedInput ==
            << Divide(Minus(input[1], rg.hours.min),
                      Minus(rg.hours.max, rg.hours.min)),
               Divide(Minus(input[2], rg.attendance.min),
                      Minus(rg.attendance.max, rg.attendance.min)) >>
    IN IF someNotFinite(normalizedInput)
       THEN PredictOutcome(FALSE, Fin(0), TRUE, FALSE)
       ELSE IF mdl.output = Throws THEN PredictOutcome(TRUE, Undefined, TRUE, TRUE)
       ELSE PredictOutcome(FALSE, clamp01(mdl.output), TRUE, TRUE)

----------------------------------------------------------------------------
(* utils/model: createModel *)

Layer(units, activation) == [units |-> units, activation |-> activation]

\* tf.layers.dense validates its units argument: a positive integer, else it throws.
positiveInteger(u) == u.k = "fin" /\ u.s = 1 /\ ~IsZero(u) /\ u.e >= 0

\* What a call of createModel did: the layers it had added to the model when it
\* returned or threw, and whether the optimizer was created and the model compiled.
CreateOutcome(th, layers, opt) ==
    [threw |-> th, layers |-> layers, optimizer |-> opt, compiled |-> opt,
     inputShape |-> IF layers = <<>> THEN <<>> ELSE <<2>>]

\* A loop that stops one entry early.
RECURSIVE addHiddenLayers_skipsLast(_, _, _)
addHiddenLayers_skipsLast(hiddenLayers, i, layers) ==
    IF i >= Len(hiddenLayers) THEN [threw |-> FALSE, layers |-> layers]
    ELSE IF ~positiveInteger(hiddenLayers[i]) THEN [threw |-> TRUE, layers |-> layers]
    ELSE addHiddenLayers_skipsLast(hiddenLayers, i + 1,
                                   Append(layers, Layer(hiddenLayers[i], "relu")))

\* The for loop from index i (1-based here) on, with the layers added so far.
RECURSIVE addHiddenLayers(_, _, _)
addHiddenLayers(hiddenLayers, i, layers) ==
    IF i > Len(hiddenLayers) THEN [threw |-> FALSE, layers |-> layers]
    ELSE IF ~positiveInteger(hiddenLayers[i]) THEN [threw |-> TRUE, layers |-> layers]
    ELSE addHiddenLayers(hiddenLayers, i + 1,
                         Append(layers, Layer(hiddenLayers[i], "relu")))

createModel(cfg) ==
    LET first == IF Len(cfg.hiddenLayers) = 0 THEN Undefined ELSE cfg.hiddenLayers[1]
    IN IF ~positiveInteger(first) THEN CreateOutcome(TRUE, <<>>, FALSE)
       ELSE
       LET hidden == addHiddenLayers(cfg.hiddenLayers, 2, <<Layer(first, "relu")>>)
       IN IF hidden.threw THEN CreateOutcome(TRUE, hidden.layers, FALSE)
          ELSE CreateOutcome(FALSE, Append(hidden.layers, Layer(Fin(1), "sigmoid")), TRUE)

\* prepareData once normalizeData has returned n (or thrown): the two tensors.
createTensors(d, n) ==
    IF n.threw THEN n
    ELSE [threw |-> FALSE,
          xsTensor |-> [i \in 1..Len(d) |->
                           <<n.normalizedData[i].hoursStudied,
                             n.normalizedData[i].attendanceRate>>],
          ysTensor |-> [i \in 1..Len(d) |-> <<n.normalizedData[i].passed>>],
          ranges |-> n.ranges]

\* prepareData: the tensors are created only once normalizeData has returned.
prepareData(d) == createTensors(d, normalizeData(d))

----------------------------------------------------------------------------
(* utils/data: loadData *)

\* A parsed CSV row; a cell is a number, Null (empty or missing) or Str.
Row(h, a, p) ==
    [hours_studied_per_week |-> h, attendance_rate_percent |-> a, passed_exam |-> p]

\* The response of fetch('/data.csv'): response.ok and the parsed rows.
Csv(rows) == [ok |-> TRUE, rows |-> rows]
FetchFailed == [ok |-> FALSE, rows |-> <<>>]

\* x != null
notNullish(x) == x.k \notin {"null", "undef"}

rowComplete(row) ==
    /\ notNullish(row.hours_studied_per_week)
    /\ notNullish(row.attendance_rate_percent)
    /\ notNullish(row.passed_exam)

rowToDataPoint(row) ==
    DataPoint(Number(row.hours_studied_per_week),
              Number(row.attendance_rate_percent),
              Number(row.passed_exam))

loadData(csv) ==
    IF ~csv.ok THEN Threw("HTTP error")
    ELSE
    LET kept == SelectSeq(csv.rows, rowComplete)
        mappedData == [i \in 1..Len(kept) |-> rowToDataPoint(kept[i])]
    IN IF Len(mappedData) = 0 THEN Threw("no valid training data")
       ELSE [threw |-> FALSE, data |-> mappedData]

----------------------------------------------------------------------------
(* The component's state after construction *)

NoError == "null"

\* handlePredict's local result: whether the invocation called predict, and
\* then whether predict threw and the value it returned.
Result(called, threw, value) == [called |-> called, threw |-> threw, value |-> value]
NoResult == Result(FALSE, FALSE, Undefined)

SessionInit ==
    /\ data = <<>>
    /\ isLoading = TRUE
    /\ error = NoError
    /\ model = Null
    /\ ranges = Null
    /\ prediction = Null
    /\ lastResult = NoResult
    /\ trainingHistory = <<>>
    /\ config = [hiddenLayers |-> <<Fin(8), Fin(4)>>, learningRate |-> Frac(1, 100)]
    /\ inputValues = [hoursStudied |-> Fin(20), attendanceRate |-> Fin(80)]

----------------------------------------------------------------------------
(* Direct calls of the pipeline functions on bounded inputs *)

MaxRecords == 3
MaxLayers == 3

SeqsUpTo(S, n) == UNION {[1..m -> S] : m \in 0..n}

HoursValues == {Fin(5), Fin(20), Fin(35), NaN}
AttendanceValues == {Fin(50), Fin(95), Infinity}
PassedValues == {Fin(0), Fin(1)}

ExampleDataset ==
    << DataPoint(Fin(5), Fin(50), Fin(0)),
       DataPoint(Fin(35), Fin(95), Fin(1)),
       DataPoint(Fin(20), Fin(70), Fin(1)) >>

\* Datasets with the other invalid values: null, -Infinity, NaN and Infinity in
\* the other column.
InvalidDatasets ==
    { << DataPoint(bad, Fin(50), Fin(0)), DataPoint(Fin(5), Fin(95), Fin(1)) >> :
        bad \in {Null, Infinity, NegInfinity} }
    \cup
    { << DataPoint(Fin(5), Fin(50), Fin(0)), DataPoint(Fin(35), bad, Fin(1)) >> :
        bad \in {Null, NaN, NegInfinity} }

\* Datasets of finite values whose spread is beyond the range of a double
\* (-1e308 and 1e308) or at its lower end (0 and 1e-320).
ExtremeDatasets ==
    { << DataPoint([Number1e308 EXCEPT !.s = -1], Fin(50), Fin(0)),
         DataPoint(Number1e308, Fin(95), Fin(1)),
         DataPoint(Fin(0), Fin(70), Fin(1)) >>,
      << DataPoint(Fin(5), [Number1e308 EXCEPT !.s = -1], Fin(0)),
         DataPoint(Fin(35), Number1e308, Fin(1)) >>,
      << DataPoint(Fin(0), Fin(50), Fin(0)),
         DataPoint(Number1eMinus320, Fin(95), Fin(1)) >> }

Datasets ==
    SeqsUpTo([hoursStudied : HoursValues, attendanceRate : AttendanceValues,
              passed : PassedValues], MaxRecords)
    \cup {ExampleDataset} \cup InvalidDatasets \cup ExtremeDatasets

ExampleRanges ==
    [hours |-> FeatureRange(Fin(5), Fin(35)), attendance |-> FeatureRange(Fin(50), Fin(95))]

RangesValues ==
    { Null,
      ExampleRanges,
      [hours |-> FeatureRange(Fin(20), Fin(20)), attendance |-> FeatureRange(Fin(50), Fin(95))],
      [hours |-> FeatureRange(Fin(5), Fin(35)), attendance |-> FeatureRange(NaN, Fin(95))],
      [hours |-> FeatureRange(NegInfinity, Fin(35)), attendance |-> FeatureRange(Fin(50), Fin(95))],
      \* a spread so small that the quotient overflows
      [hours |-> FeatureRange(Fin(0), Number1eMinus320),
       attendance |-> FeatureRange(Fin(50), Fin(95))] }

ForwardOutputs == {NaN, Frac(-1, 10), Fin(0), Frac(1, 2), Fin(1), Frac(11, 10), Throws}
PredictHours == {Fin(-1), Fin(0), Fin(20), Fin(40), Fin(41), NaN, Infinity}
PredictAttendance == {Fin(-1), Fin(0), Fin(80), Fin(100), Fin(150), NaN, NegInfinity}

WidthValues == {Fin(-2), Fin(0), Fin(1), Fin(4), Fin(8), Frac(5, 2)}

MaxRows == 2

HoursCells == {Fin(5), Fin(35), Null, Str}
AttendanceCells == {Fin(50), Undefined}
PassedCells == {Fin(1), Str}

CsvValues ==
    {Csv(rows) : rows \in SeqsUpTo([hours_studied_per_week : HoursCells,
                                    attendance_rate_percent : AttendanceCells,
                                    passed_exam : PassedCells], MaxRows)}
    \cup {FetchFailed}

NoCall == [fn |-> "none"]
NoRet == [done |-> FALSE]

NormalizeCalls == {[fn |-> "normalizeData", data |-> d] : d \in Datasets}

PredictCalls ==
    {[fn |-> "predict", model |-> [output |-> o], input |-> <<h, a>>, ranges |-> rg] :
        o \in ForwardOutputs, h \in PredictHours, a \in PredictAttendance,
        rg \in RangesValues}

CreateCalls ==
    {[fn |-> "createModel", config |-> [hiddenLayers |-> hl, learningRate |-> Frac(1, 100)]] :
        hl \in SeqsUpTo(WidthValues, MaxLayers)}

LoadCalls == {[fn |-> "loadData", csv |-> csv] : csv \in CsvValues}

InitCalls ==
    /\ SessionInit
    /\ runs = <<>>
    /\ call \in NormalizeCalls \cup PredictCalls \cup CreateCalls \cup LoadCalls
    /\ ret = NoRet

Returned(out) == [done |-> TRUE, out |-> out]

CallNormalizeData ==
    /\ call.fn = "normalizeData" /\ ~ret.done
    /\ ret' = Returned(normalizeData(call.data))
    /\ UNCHANGED <<sessionVars, runs, call>>

CallPredict ==
    /\ call.fn = "predict" /\ ~ret.done
    /\ ret' = Returned(predict(call.model, call.input, call.ranges))
    /\ UNCHANGED <<sessionVars, runs, call>>

CallCreateModel ==
    /\ call.fn = "createModel" /\ ~ret.done
    /\ ret' = Returned(createModel(call.config))
    /\ UNCHANGED <<sessionVars, runs, call>>

CallLoadData ==
    /\ call.fn = "loadData" /\ ~ret.done
    /\ ret' = Returned(loadData(call.csv))
    /\ UNCHANGED <<sessionVars, runs, call>>

NextCalls == CallNormalizeData \/ CallPredict \/ CallCreateModel \/ CallLoadData

SpecCalls == InitCalls /\ [][NextCalls]_vars

----------------------------------------------------------------------------
(* Properties of the pipeline functions, checked under SpecCalls *)

\* v is a number in [0, 1].
InUnit(v) == v.k = "fin" /\ ~FinLess(v, Fin(0)) /\ ~FinLess(Fin(1), v)

\* v is a number below lo or above hi (lo, hi integers).
Outside(v, lo, hi) ==
    \/ v.k = "inf"
    \/ v.k = "fin" /\ (FinLess(v, Fin(lo)) \/ FinLess(Fin(hi), v))

\* a <= b for finite a, b.
FinLeq(a, b) == a.k = "fin" /\ b.k = "fin" /\ ~FinLess(b, a)

NormalizeReturned == call.fn = "normalizeData" /\ ret.done /\ ~ret.out.threw
PredictDone == call.fn = "predict" /\ ret.done
CreateDone == call.fn = "createModel" /\ ret.done

\* C1: for every model, input pair and (non-null) ranges value, predict returns a
\* number r with 0 <= r <= 1, whatever scalar the forward pass yields.
C1_PredictInUnitInterval ==
    (PredictDone /\ call.ranges # Null) =>
        (~ret.out.threw /\ InUnit(ret.out.value))

\* C2: whenever hoursStudied is outside [0,40] or attendanceRate is outside
\* [0,100], predict returns exactly 0 without normalising the input, without a
\* forward pass and without throwing, for every model and every ranges value
\* (a null ranges value included).
C2_OutOfRangeReturnsZero ==
    (PredictDone /\ (Outside(call.input[1], 0, 40) \/ Outside(call.input[2], 0, 100))) =>
        ret.out = PredictOutcome(FALSE, Fin(0), FALSE, FALSE)

C2_Witness ==
    /\ PredictDone
    /\ call.input = <<Fin(20), Fin(150)>>
    /\ call.ranges = Null
    /\ call.model.output = Fin(1)
    /\ ret.out.value = Fin(0)

\* Every value of the column is finite and the column is not constant.
GoodColumn(col) ==
    /\ \A i \in 1..Len(col) : col[i].k = "fin"
    /\ \E i, j \in 1..Len(col) : col[i] # col[j]

\* The feature's range bounds every observed value, every normalised value is in
\* [0,1], the minimum maps to exactly 0 and the maximum to exactly 1.
RangeBoundsColumn(col, normalized, range) ==
    \A i \in 1..Len(col) :
        /\ FinLeq(range.min, col[i]) /\ FinLeq(col[i], range.max)
        /\ InUnit(normalized[i])
        /\ (col[i] = range.min => normalized[i] = Fin(0))
        /\ (col[i] = range.max => normalized[i] = Fin(1))
        /\ \E j \in 1..Len(col) : col[j] = range.min
        /\ \E j \in 1..Len(col) : col[j] = range.max

\* C3: for a dataset of valid records, the ranges normalizeData returns bound
\* every observed value of each feature, every normalised value lies in [0,1],
\* a record holding the minimum normalises to 0 and one holding the maximum to
\* 1; it does return when both columns are finite and not constant, and the
\* dataset [{5,50,0},{35,95,1},{20,70,1}] yields hours {5,35}, attendance
\* {50,95} and normalises record 2 to (1, 1).
C3_NormalizeRanges ==
    /\ NormalizeReturned =>
          /\ RangeBoundsColumn(hoursColumn(call.data),
                               hoursColumn(ret.out.normalizedData),
                               ret.out.ranges.hours)
          /\ RangeBoundsColumn(attendanceColumn(call.data),
                               attendanceColumn(ret.out.normalizedData),
                               ret.out.ranges.attendance)
    /\ (call.fn = "normalizeData" /\ ret.done
          /\ GoodColumn(hoursColumn(call.data))
          /\ GoodColumn(attendanceColumn(call.data))) => ~ret.out.threw
    /\ (call.fn = "normalizeData" /\ ret.done /\ call.data = ExampleDataset) =>
          /\ ~ret.out.threw
          /\ ret.out.ranges = ExampleRanges
          /\ ret.out.normalizedData[2].hoursStudied = Fin(1)
          /\ ret.out.normalizedData[2].attendanceRate = Fin(1)


\* The column is constant, or holds NaN, +Infinity or -Infinity.
DegenerateColumn(col) ==
    \/ \A i, j \in 1..Len(col) : col[i] = col[j]
    \/ \E i \in 1..Len(col) : col[i].k \in {"nan", "inf"}

ValidRange(range) ==
    /\ range.min.k = "fin" /\ range.max.k = "fin"
    /\ FinLess(range.min, range.max)

\* C4: normalizeData throws, returning neither records nor ranges, whenever a
\* feature column is constant or holds a non-finite value; every FeatureRange it
\* returns has finite endpoints with min < max.
C4_DegenerateRejected ==
    (call.fn = "normalizeData" /\ ret.done) =>
        /\ (DegenerateColumn(hoursColumn(call.data))
              \/ DegenerateColumn(attendanceColumn(call.data))) =>
                (ret.out.threw /\ DOMAIN ret.out = {"threw", "message"})
        /\ ~ret.out.threw =>
              (ValidRange(ret.out.ranges.hours) /\ ValidRange(ret.out.ranges.attendance))

C4_Witness ==
    /\ call.fn = "normalizeData" /\ ret.done
    /\ Len(call.data) = 2
    /\ call.data[1].hoursStudied = Fin(20) /\ call.data[2].hoursStudied = Fin(20)
    /\ call.data[1].attendanceRate = Fin(50) /\ call.data[2].attendanceRate = Fin(95)
    /\ ret.out.threw

\* C5: the normalised sequence has the length and order of the input, each
\* feature equals (value - min) / (max - min) for the returned range and lies in
\* [0,1], and each passed label is the input's, unchanged.
C5_NormalizedRecords ==
    NormalizeReturned =>
        /\ Len(ret.out.normalizedData) = Len(call.data)
        /\ \A i \in 1..Len(call.data) :
              LET n == ret.out.normalizedData[i]
                  h == ret.out.ranges.hours
                  a == ret.out.ranges.attendance
              IN /\ n.hoursStudied =
                        Divide(Minus(call.data[i].hoursStudied, h.min), Minus(h.max, h.min))
                 /\ n.attendanceRate =
                        Divide(Minus(call.data[i].attendanceRate, a.min), Minus(a.max, a.min))
                 /\ InUnit(n.hoursStudied) /\ InUnit(n.attendanceRate)
                 /\ n.passed = call.data[i].passed


\* hiddenLayers is empty or holds a width below 1.
InvalidConfig(cfg) ==
    \/ Len(cfg.hiddenLayers) = 0
    \/ \E i \in 1..Len(cfg.hiddenLayers) : Less(cfg.hiddenLayers[i], Fin(1))

\* C6: createModel rejects every configuration whose hiddenLayers is empty or
\* holds a width below 1 with an error, before any layer or optimizer is
\* allocated.
C6_InvalidConfigRejectedFirst ==
    (CreateDone /\ InvalidConfig(call.config)) =>
        (ret.out.threw /\ ret.out.layers = <<>> /\ ~ret.out.optimizer)

----------------------------------------------------------------------------
(* trainModel and the fit loop *)

MaxRuns == 2        \* handleTrain / trainModel invocations in one behaviour
TrainEpochs == 2    \* epochs of a handleTrain run (the component passes 50)
MaxEpochs == 3      \* epochs of a direct trainModel call

\* One invocation.  kind: "handleTrain" (the component's run: prepareData,
\* createModel, trainModel) or "trainModel" (a direct call).  pc: "fit" (between
\* epochs), "epochEnd" (an epoch has finished, its onEpochEnd is due), "done",
\* "failed".  epoch: epochs computed so far.  calls: the epoch arguments the
\* caller's callback has received.  cb: the caller's callback, "history"
\* (handleTrain's), "record" (one that only takes note) or "none" (undefined).
\* tensors: "none", "live" or "disposed" (xsTensor and ysTensor of prepareData).
\* raiseAt: the epoch argument at which the caller's callback throws (-1: the
\* callback never throws, as handleTrain's).
Run(kind, pc, epochs, cb, tensors) ==
    [kind |-> kind, pc |-> pc, epochs |-> epochs, epoch |-> 0, calls |-> <<>>,
     cb |-> cb, tensors |-> tensors, raiseAt |-> -1]

Logs == [loss |-> "loss", acc |-> "acc"]

\* A wrapper that never forwards epoch 0.
forwardEpochEnd_skipsZero(run, epoch, logs) ==
    IF run.cb # "none" /\ epoch # 0 /\ logs # Null THEN Append(run.calls, epoch) ELSE run.calls

\* trainModel's callbacks.onEpochEnd: if (onEpochEnd && logs) onEpochEnd(epoch, logs)
forwardEpochEnd(run, epoch, logs) ==
    IF run.cb # "none" /\ logs # Null THEN Append(run.calls, epoch) ELSE run.calls

\* handleTrain's catch block without setRanges(null).
trainCatch_keepsRanges(m, rg) == [model |-> Null, ranges |-> rg]

\* handleTrain's catch block: setModel(null); setRanges(null)
trainCatch(m, rg) == [model |-> Null, ranges |-> Null]

\* A wrapper that catches what the caller's callback throws.
epochEndOutcome_swallows(run, epoch, logs) == "fit"

\* The async wrapper calls the caller's callback without a try: what the callback
\* throws rejects the wrapper's promise, which model.fit awaits, so fit (and with
\* it trainModel's "return await") rejects; otherwise fit goes on.
epochEndOutcome(run, epoch, logs) ==
    IF run.cb # "none" /\ logs # Null /\ run.raiseAt = epoch THEN "failed" ELSE "fit"

\* A direct call trainModel(model, xs, ys, n, cb).
TrainModelCall(n, cb) ==
    /\ Len(runs) < MaxRuns
    /\ runs' = Append(runs, Run("trainModel", "fit", n, cb, "live"))
    /\ UNCHANGED <<sessionVars, call, ret>>

\* A direct call trainModel(model, xs, ys, n, cb) with a callback that takes note
\* of its epoch argument and throws when that is k.
TrainModelCallRaising(n, k) ==
    /\ Len(runs) < MaxRuns
    /\ runs' = Append(runs, [Run("trainModel", "fit", n, "record", "live")
                                EXCEPT !.raiseAt = k])
    /\ UNCHANGED <<sessionVars, call, ret>>

\* model.fit computes one more epoch.
FitEpoch(r) ==
    /\ runs[r].pc = "fit"
    /\ runs[r].epoch < runs[r].epochs
    /\ runs' = [runs EXCEPT ![r].epoch = @ + 1, ![r].pc = "epochEnd"]
    /\ UNCHANGED <<sessionVars, call, ret>>

\* model.fit reports the epoch just computed (0-based) to callbacks.onEpochEnd;
\* handleTrain's callback appends it to the training history.
OnEpochEnd(r) ==
    LET run == runs[r]
        epoch == run.epoch - 1
        pc == epochEndOutcome(run, epoch, Logs)
        caught == pc = "failed" /\ run.kind = "handleTrain"
    IN /\ run.pc = "epochEnd"
       /\ runs' = [runs EXCEPT ![r].calls = forwardEpochEnd(run, epoch, Logs),
                               ![r].pc = pc]
       /\ trainingHistory' =
            IF run.cb = "history"
            THEN Append(trainingHistory, [epoch |-> epoch, loss |-> Logs.loss, acc |-> Logs.acc])
            ELSE trainingHistory
       /\ model' = IF caught THEN trainCatch(model, ranges).model ELSE model
       /\ ranges' = IF caught THEN trainCatch(model, ranges).ranges ELSE ranges
       /\ UNCHANGED <<data, isLoading, error, prediction, lastResult, config, inputValues, call, ret>>

\* model.fit resolves after the last epoch; handleTrain then disposes the tensors.
FitResolve(r) ==
    /\ runs[r].pc = "fit"
    /\ runs[r].epoch = runs[r].epochs
    /\ runs' = [runs EXCEPT ![r].pc = "done",
                            ![r].tensors =
                                IF runs[r].kind = "handleTrain" THEN "disposed" ELSE @]
    /\ UNCHANGED <<sessionVars, call, ret>>

\* model.fit rejects while computing an epoch (a backend failure); handleTrain's
\* catch block runs.
FitReject(r) ==
    /\ runs[r].pc = "fit"
    /\ runs[r].epoch < runs[r].epochs
    /\ runs' = [runs EXCEPT ![r].pc = "failed"]
    /\ IF runs[r].kind = "handleTrain"
       THEN /\ model' = trainCatch(model, ranges).model
            /\ ranges' = trainCatch(model, ranges).ranges
       ELSE UNCHANGED <<model, ranges>>
    /\ UNCHANGED <<data, isLoading, error, prediction, lastResult, trainingHistory, config,
                   inputValues, call, ret>>

InitTrain ==
    /\ SessionInit
    /\ runs = <<>>
    /\ call = NoCall
    /\ ret = NoRet

NextTrain ==
    \/ \E n \in 1..MaxEpochs, cb \in {"record", "none"} : TrainModelCall(n, cb)
    \/ \E n \in 1..MaxEpochs : \E k \in 0..(n - 1) : TrainModelCallRaising(n, k)
    \/ \E r \in 1..Len(runs) : FitEpoch(r)
    \/ \E r \in 1..Len(runs) : OnEpochEnd(r)
    \/ \E r \in 1..Len(runs) : FitResolve(r)
    \/ \E r \in 1..Len(runs) : FitReject(r)

SpecTrain == InitTrain /\ [][NextTrain]_vars

----------------------------------------------------------------------------
(* NeuralNetworkDemo: the component's handlers *)

ExampleCsv ==
    Csv(<< Row(Fin(5), Fin(50), Fin(0)), Row(Fin(35), Fin(95), Fin(1)),
           Row(Fin(20), Fin(70), Fin(1)) >>)

CsvFiles ==
    { ExampleCsv,
      \* a row with an empty cell
      Csv(<< Row(Fin(5), Fin(50), Fin(0)), Row(Null, Fin(70), Fin(1)),
             Row(Fin(35), Fin(95), Fin(1)) >>),
      \* a constant hours column
      Csv(<< Row(Fin(20), Fin(50), Fin(0)), Row(Fin(20), Fin(95), Fin(1)) >>),
      \* a non-numeric cell
      Csv(<< Row(Fin(5), Fin(50), Fin(0)), Row(Fin(35), Str, Fin(1)) >>),
      \* no complete row
      Csv(<< Row(Fin(5), Null, Fin(0)) >>),
      FetchFailed }

WidthInputs == {Frac(5, 2), Fin(9)}
LearningRateInputs == {Frac(1, 2)}
HoursInputs == {Fin(20), Fin(41)}
AttendanceInputs == {Fin(80), Fin(150)}
SessionOutputs == {NaN, Frac(1, 2), Throws}

\* initializeData: loadData resolves or rejects.
InitializeData(csv) ==
    LET loaded == loadData(csv)
    IN /\ isLoading
       /\ IF loaded.threw
          THEN error' = loaded.message /\ UNCHANGED data
          ELSE data' = loaded.data /\ UNCHANGED error
       /\ isLoading' = FALSE
       /\ UNCHANGED <<model, ranges, prediction, lastResult, trainingHistory, config,
                      inputValues, runs, call, ret>>

\* Math.min(8, Math.max(1, Number(e.target.value)))
clampWidth(v) == min2(Fin(8), max2(Fin(1), Number(v)))

\* onChange of one of the two hidden-layer inputs (i = 1 or 2).
SetHiddenLayer(i, v) ==
    /\ config' = [config EXCEPT !.hiddenLayers[i] = clampWidth(v)]
    /\ UNCHANGED <<data, isLoading, error, model, ranges, prediction, lastResult,
                   trainingHistory, inputValues, runs, call, ret>>

\* onChange of the learning-rate input.
SetLearningRate(v) ==
    /\ config' = [config EXCEPT !.learningRate = Number(v)]
    /\ UNCHANGED <<data, isLoading, error, model, ranges, prediction, lastResult,
                   trainingHistory, inputValues, runs, call, ret>>

SetHoursStudied(v) ==
    /\ inputValues' = [inputValues EXCEPT !.hoursStudied = Number(v)]
    /\ UNCHANGED <<data, isLoading, error, model, ranges, prediction, lastResult,
                   trainingHistory, config, runs, call, ret>>

SetAttendanceRate(v) ==
    /\ inputValues' = [inputValues EXCEPT !.attendanceRate = Number(v)]
    /\ UNCHANGED <<data, isLoading, error, model, ranges, prediction, lastResult,
                   trainingHistory, config, runs, call, ret>>

\* A click on the train button (disabled while isLoading): handleTrain up to its
\* await of trainModel, or to the end of its catch block. r is the number of the
\* run, prepared and newModel are what prepareData and createModel did.
HandleTrain ==
    /\ ~isLoading
    /\ Len(runs) < MaxRuns
    /\ IF Len(data) = 0 THEN UNCHANGED vars
       ELSE
       \E r \in {Len(runs) + 1}, prepared \in {prepareData(data)},
          newModel \in {createModel(config)} :
          /\ trainingHistory' = <<>>
          /\ IF prepared.threw
             THEN /\ model' = trainCatch(model, ranges).model
                  /\ ranges' = trainCatch(model, ranges).ranges
                  /\ runs' = Append(runs, Run("handleTrain", "failed", TrainEpochs,
                                              "history", "none"))
             ELSE IF newModel.threw
             THEN /\ model' = trainCatch(model, [run |-> r] @@ prepared.ranges).model
                  /\ ranges' = trainCatch(model, [run |-> r] @@ prepared.ranges).ranges
                  /\ runs' = Append(runs, Run("handleTrain", "failed", TrainEpochs,
                                              "history", "live"))
             ELSE /\ model' = [run |-> r]
                  /\ ranges' = [run |-> r] @@ prepared.ranges
                  /\ runs' = Append(runs, Run("handleTrain", "fit", TrainEpochs,
                                              "history", "live"))
          /\ UNCHANGED <<data, isLoading, error, prediction, lastResult, config, inputValues,
                         call, ret>>

\* The rest of handlePredict with a catch block that leaves the prediction.
afterPredict_catchKeeps(result, pred) ==
    [result |-> Result(TRUE, result.threw, result.value),
     prediction |-> IF result.threw THEN pred
                    ELSE IF isNaN(result.value) THEN Fin(0)
                    ELSE result.value]

\* handlePredict once predict has returned or thrown: setPrediction(0) in the
\* catch block and for a NaN result, setPrediction(result) else.
afterPredict(result, pred) ==
    [result |-> Result(TRUE, result.threw, result.value),
     prediction |-> IF result.threw THEN Fin(0)
                    ELSE IF isNaN(result.value) THEN Fin(0)
                    ELSE result.value]

\* handlePredict whose catch block does not call setPrediction.
handlePredict_catchKeeps(m, rg, input, out, pred) ==
    IF m = Null \/ rg = Null THEN [result |-> NoResult, prediction |-> pred]
    ELSE afterPredict_catchKeeps(predict([output |-> out], input, rg), pred)

\* handlePredict: its local result and the prediction it leaves, given the
\* model and ranges of the state, the form's input, what the forward pass
\* yields (out) and the prediction so far (pred).
handlePredict(m, rg, input, out, pred) ==
    IF m = Null \/ rg = Null THEN [result |-> NoResult, prediction |-> pred]
    ELSE afterPredict(predict([output |-> out], input, rg), pred)

\* An invocation of handlePredict (the predict button is disabled while there is
\* no model; the handler's own test returns early then, too).
HandlePredict ==
    /\ \E out \in SessionOutputs :
          \E done \in {handlePredict(model, ranges,
                                     <<inputValues.hoursStudied,
                                       inputValues.attendanceRate>>,
                                     out, prediction)} :
             /\ prediction' = done.prediction
             /\ lastResult' = done.result
    /\ UNCHANGED <<data, isLoading, error, model, ranges, trainingHistory, config,
                   inputValues, runs, call, ret>>

Init ==
    /\ SessionInit
    /\ runs = <<>>
    /\ call = NoCall
    /\ ret = NoRet

\* Loading, configuring and training.
NextTraining ==
    \/ \E csv \in CsvFiles : InitializeData(csv)
    \/ \E i \in 1..2, v \in WidthInputs : SetHiddenLayer(i, v)
    \/ \E v \in LearningRateInputs : SetLearningRate(v)
    \/ HandleTrain
    \/ \E r \in 1..Len(runs) : FitEpoch(r)
    \/ \E r \in 1..Len(runs) : OnEpochEnd(r)
    \/ \E r \in 1..Len(runs) : FitResolve(r)
    \/ \E r \in 1..Len(runs) : FitReject(r)

\* The prediction form.
NextPredicting ==
    \/ \E v \in HoursInputs : SetHoursStudied(v)
    \/ \E v \in AttendanceInputs : SetAttendanceRate(v)
    \/ HandlePredict

Next == NextTraining \/ NextPredicting

Spec == Init /\ [][Next]_vars

\* The session with the configuration left as it is.
NextPredictingSession ==
    \/ \E csv \in CsvFiles : InitializeData(csv)
    \/ HandleTrain
    \/ \E r \in 1..Len(runs) : FitEpoch(r)
    \/ \E r \in 1..Len(runs) : OnEpochEnd(r)
    \/ \E r \in 1..Len(runs) : FitResolve(r)
    \/ \E r \in 1..Len(runs) : FitReject(r)
    \/ NextPredicting

SpecPredicting == Init /\ [][NextPredictingSession]_vars

\* The session without the prediction form, whose handlers write only prediction
\* and inputValues, which no other handler reads.
SpecTraining == Init /\ [][NextTraining]_vars

----------------------------------------------------------------------------
(* Properties of trainModel, checked under SpecTrain *)

\* calls is 0, 1, ..., Len(calls) - 1.
CountsFromZero(calls) == \A i \in 1..Len(calls) : calls[i] = i - 1

\* C7: trainModel with epochs = N and a callback that does not raise invokes the
\* callback once after each completed epoch and before the next epoch starts,
\* with epoch arguments 0, 1, ..., N-1 in increasing order, and completes only
\* after the N-th invocation.
C7_CallbackOncePerEpoch ==
    \A r \in 1..Len(runs) :
        LET run == runs[r]
        IN run.cb # "none" =>
            /\ CountsFromZero(run.calls)
            /\ run.pc = "fit" => Len(run.calls) = run.epoch
            /\ run.pc = "epochEnd" => Len(run.calls) = run.epoch - 1
            /\ run.pc = "done" => (Len(run.calls) = run.epochs /\ run.epoch = run.epochs)

C7_Witness ==
    \E r \in 1..Len(runs) :
        /\ runs[r].kind = "trainModel" /\ runs[r].cb = "record"
        /\ runs[r].pc = "done" /\ runs[r].epochs = 3
        /\ runs[r].calls = <<0, 1, 2>>

----------------------------------------------------------------------------
(* Properties of the session, checked under SpecTraining *)

\* The handleTrain runs whose trainModel call is still awaited.
ActiveRuns ==
    {r \in 1..Len(runs) : runs[r].kind = "handleTrain" /\ runs[r].pc \in {"fit", "epochEnd"}}

\* C8: at most one training run is active at any time.
C8_SingleActiveRun == Cardinality(ActiveRuns) <= 1

\* C9: the tensors prepareData created for a run are disposed once the run has
\* finished, whether training completed, createModel threw or trainModel rejected.
C9_TensorsReleased ==
    \A r \in 1..Len(runs) :
        (runs[r].kind = "handleTrain" /\ runs[r].pc \in {"done", "failed"}) =>
            runs[r].tensors # "live"

\* C10: the stored model and the stored ranges are both null or both produced by
\* the same handleTrain run.
C10_ModelRangesPaired ==
    \/ model = Null /\ ranges = Null
    \/ model # Null /\ ranges # Null /\ model.run = ranges.run

C10_Witness ==
    /\ Len(runs) = 2
    /\ runs[1].pc = "failed" /\ runs[1].tensors = "live"
    /\ runs[2].pc = "done"
    /\ model # Null /\ model.run = 2
    /\ ranges # Null /\ ranges.run = 2

\* Every ranges value the session stores has finite endpoints with min < max.
SessionRangesValid ==
    ranges # Null => (ValidRange(ranges.hours) /\ ValidRange(ranges.attendance))

\* The epoch values of the training history, in order.
HistoryEpochs == [i \in 1..Len(trainingHistory) |-> trainingHistory[i].epoch]

\* C11: the training history is emptied when a handleTrain run starts and then
\* holds exactly one entry per epoch the current (latest) run has completed and
\* reported, with epoch values strictly increasing: 0, 1, 2, ...
C11_HistoryOfCurrentRun ==
    IF Len(runs) = 0 THEN trainingHistory = <<>>
    ELSE /\ HistoryEpochs = runs[Len(runs)].calls
         /\ \A i, j \in 1..Len(trainingHistory) :
               i < j => trainingHistory[i].epoch < trainingHistory[j].epoch

----------------------------------------------------------------------------
(* Properties of loadData, createModel and handlePredict, checked under SpecCalls *)

\* The cell is present and numeric.
NumericCell(c) == c.k \in {"fin", "inf"}

ValidRow(row) ==
    /\ NumericCell(row.hours_studied_per_week)
    /\ NumericCell(row.attendance_rate_percent)
    /\ NumericCell(row.passed_exam)

\* C12: loadData drops exactly the rows in which one of the three fields is
\* missing or non-numeric and keeps the others, in order: every record it
\* returns has three numeric fields, and it fails only if no valid row remains
\* (or the fetch failed).
C12_LoadDropsInvalidRows ==
    (call.fn = "loadData" /\ ret.done /\ call.csv.ok) =>
        LET valid == SelectSeq(call.csv.rows, ValidRow)
        IN IF Len(valid) = 0 THEN ret.out.threw
           ELSE /\ ~ret.out.threw
                /\ Len(ret.out.data) = Len(valid)
                /\ \A i \in 1..Len(valid) :
                      /\ ret.out.data[i].hoursStudied = valid[i].hours_studied_per_week
                      /\ ret.out.data[i].attendanceRate = valid[i].attendance_rate_percent
                      /\ ret.out.data[i].passed = valid[i].passed_exam

\* A ModelConfig: at least one width, each an integer >= 1.
ValidConfig(cfg) ==
    /\ Len(cfg.hiddenLayers) >= 1
    /\ \A i \in 1..Len(cfg.hiddenLayers) : positiveInteger(cfg.hiddenLayers[i])

\* C13: for every ModelConfig with k >= 1 widths createModel returns a model with
\* input width 2 and exactly k + 1 dense layers: the i-th has width
\* hiddenLayers[i] and ReLU activation, the last has width 1 and sigmoid
\* activation.
C13_Topology ==
    (CreateDone /\ ValidConfig(call.config)) =>
        LET hl == call.config.hiddenLayers
            k == Len(hl)
        IN /\ ~ret.out.threw
           /\ ret.out.inputShape = <<2>>
           /\ Len(ret.out.layers) = k + 1
           /\ \A i \in 1..k : ret.out.layers[i] = Layer(hl[i], "relu")
           /\ ret.out.layers[k + 1] = Layer(Fin(1), "sigmoid")

\* {hiddenLayers: [8, 4]} has given three layers of widths 8, 4, 1.
C13_Witness ==
    /\ CreateDone
    /\ call.config.hiddenLayers = <<Fin(8), Fin(4)>>
    /\ [i \in 1..Len(ret.out.layers) |-> ret.out.layers[i].units] = <<Fin(8), Fin(4), Fin(1)>>

----------------------------------------------------------------------------
(* A callback that throws, checked under SpecTrain *)

\* The callback of run r has been invoked for the epoch at which it throws.
Raised(r) ==
    /\ runs[r].raiseAt >= 0
    /\ \E i \in 1..Len(runs[r].calls) : runs[r].calls[i] = runs[r].raiseAt

\* C15: once the callback has thrown at epoch k, trainModel has rejected (the
\* run has failed), the callback has been invoked for no epoch greater than k
\* and for each of 0..k once, and the model holds the weights of the k + 1
\* epochs computed: nothing is rolled back.
C15_CallbackRaiseAborts ==
    \A r \in 1..Len(runs) :
        /\ runs[r].raiseAt >= 0 =>
              \A i \in 1..Len(runs[r].calls) : runs[r].calls[i] <= runs[r].raiseAt
        /\ Raised(r) =>
              /\ runs[r].pc = "failed"
              /\ runs[r].epoch = runs[r].raiseAt + 1
              /\ runs[r].calls = [i \in 1..(runs[r].raiseAt + 1) |-> i - 1]

\* A three-epoch run whose callback threw at epoch 1: two epochs are kept, the
\* third was never computed.
C15_Witness ==
    \E r \in 1..Len(runs) :
        /\ runs[r].epochs = 3 /\ runs[r].raiseAt = 1
        /\ Raised(r)
        /\ runs[r].pc = "failed" /\ runs[r].epoch = 2

----------------------------------------------------------------------------
(* The prediction form, checked under Spec and SpecPredicting *)

\* The form's input pair.
FormInput == <<inputValues.hoursStudied, inputValues.attendanceRate>>

\* The run that trains the model of the state is still in progress.
ModelInTraining == model # Null /\ runs[model.run].pc \in {"fit", "epochEnd"}

\* C14: handlePredict never runs a forward pass on a model whose handleTrain run
\* is still in progress: a step that changes the prediction, taken with a model,
\* ranges and an input for which predict reaches the forward pass, is taken only
\* once the model's run is done or has failed.
C14_PredictOnlyAfterTraining ==
    [][ (/\ prediction' # prediction
         /\ model # Null /\ ranges # Null
         /\ predict([output |-> Frac(1, 2)], FormInput, ranges).forward)
        => ~ModelInTraining ]_vars

\* C16: the displayed prediction is null or a number in [0,1] in every state;
\* handlePredict leaves it unchanged when the model or the ranges are null; and
\* whenever predict, called by handlePredict, threw or returned a value that is
\* not a number, handlePredict has set the prediction to 0.
C16_PredictionDisplay ==
    /\ [](prediction = Null \/ InUnit(prediction))
    /\ [][ (model = Null \/ ranges = Null) => prediction' = prediction ]_vars
    /\ []( (lastResult.called /\ (lastResult.threw \/ isNaN(lastResult.value)))
             => prediction = Fin(0) )

\* handlePredict has called predict with a model and ranges, predict has returned
\* NaN, and the prediction displayed is 0.
C16_Witness ==
    /\ model # Null /\ ranges # Null
    /\ lastResult.called /\ ~lastResult.threw /\ isNaN(lastResult.value)
    /\ prediction = Fin(0)

====
